---- MODULE Spec2Model ----
(***************************************************************************)
(* Model of the VQE QUBO solver: QuboSolverBuilder (qubo_solver_builder.py) *)
(* and QuboSolver (qubo_solver.py).                                         *)
(*                                                                         *)
(* Python values are encoded as follows.                                   *)
(*   - Optional[T]: None is <<>>, a present value v is <<v>>.              *)
(*   - str | list[str] (gate specifications): a sequence of gate names;    *)
(*     the single string "ry" is the one-element sequence <<"ry">>.        *)
(*   - list / numpy vector: a sequence; Python index k is TLA+ index k+1.  *)
(*   - dict[tuple, int]: a function whose domain is a set of sequences.    *)
(* Parameter vectors hold reals in the program; the model draws them from  *)
(* a small family of integer vectors with and without ties.                *)
(***************************************************************************)
EXTENDS Integers, Sequences, FiniteSets, TLC

VARIABLES
    \* ---- QuboSolverBuilder ----
    ctor,        \* arguments the builder was constructed with
    builder,     \* the builder's private fields
    last_call,   \* the builder operation performed last, with its arguments
    stdout,      \* Optional: diagnostic printed by the last builder operation
    raised,      \* Optional: exception that left the last builder operation
    touched,     \* TRUE once any setter has been called on the builder
    built,       \* Optional: the solver returned by the latest build()
    built_from,  \* Optional: the builder's fields when that build() was called
    \* ---- QuboSolver ----
    pc,          \* position inside QuboSolver.__init__ / run
    args,        \* arguments of QuboSolver.__init__
    solver,      \* Optional: the solver's configuration fields
    qubo,        \* Optional: QuadraticProgram under conversion
    hamilt,      \* Optional: self.__hamilt
    ansatz,      \* Optional: self.__ansatz
    cost_dict,   \* Optional: self.__cost_dict
    calls,       \* collaborator calls made by __init__, in order
    shots,       \* argument of the current / last run call
    r,           \* run's local list r
    i,           \* run's loop counter
    result,      \* Optional: mapping returned by the last finished run call
    evalLog,     \* every parameter vector the minimizer passed to __cost_func
    restartFrom  \* Len(evalLog) when the current minimize call began

builderVars == <<ctor, builder, last_call, stdout, raised, touched, built, built_from>>
solverVars == <<pc, args, solver, qubo, hamilt, ansatz, cost_dict, calls,
                shots, r, i, result, evalLog, restartFrom>>
vars == <<builderVars, solverVars>>

----------------------------------------------------------------------------
\* Bounds of the model.
MaxAssets == 2
MaxReps == 1
MaxShots == 2
MaxEvals == 3

----------------------------------------------------------------------------
\* Python values.
None == <<>>
Some(v) == <<v>>
Val(o) == o[1]

\* bool(x) for Optional[int]: None and 0 are falsy.
IntTruthy(o) == o # None /\ Val(o) # 0
\* bool(x) for Optional[str]: None and "" are falsy.
StrTruthy(o) == o # None /\ Val(o) # ""

Senses == {"LE", "EQ", "GE"}
Entanglements == {"linear", "full", "reverse_linear", "pairwise", "circular", "sca"}


----------------------------------------------------------------------------
\* AnsatzOptions (dataclass).
AnsatzOptions(rotation_blocks, entanglement_blocks, entanglement, reps) ==
    [rotation_blocks |-> rotation_blocks,
     entanglement_blocks |-> entanglement_blocks,
     entanglement |-> entanglement,
     reps |-> reps]

----------------------------------------------------------------------------
\* QuboSolver.__init__, lines 27-34: the configuration fields.
\* quadratic_weights is not kept: only __create_qubo reads it, to fill
\* objective coefficients that no operation of the solver inspects afterwards.
QuboSolverFields(a) ==
    [linear_weights |-> a.linear_weights,
     n_assets |-> IF IntTruthy(a.n_assets) THEN Val(a.n_assets)
                  ELSE Len(a.linear_weights),
     problem_name |-> a.problem_name,
     constraint_sense |-> a.constraint_sense,
     estimator |-> a.estimator]

\* __create_qubo, lines 92-110: one binary variable per linear weight, the
\* objective, and the single linear constraint sum(x_i) <sense> n_assets.
\* A QuadraticProgram is kept as its name, its variable counts and its
\* linear constraints; `penalized` names the constraints folded into the
\* objective.
CreateQubo(s) ==
    [name |-> s.problem_name,
     num_binary |-> Len(s.linear_weights),
     num_integer |-> 0,
     constraints |-> {[name |-> "choose_max_N_assets",
                       sense |-> s.constraint_sense,
                       rhs |-> s.n_assets]},
     penalized |-> {}]

\* The condition of line 112 with `==` replaced by membership in {"LE","GE"}.
ConvertsInequality_fixed(sense) == sense = "LE" \/ sense = "GE"

\* Line 112: `self.__constraint_sense == "LE" or "GE"`.  Python evaluates
\* `(sense == "LE") or "GE"`; its truth value is that of the comparison or,
\* failing that, of the non-empty string literal "GE".
ConvertsInequality(sense) == sense = "LE" \/ StrTruthy(Some("GE"))

\* InequalityToEquality().convert (called at line 113).  Every constraint
\* becomes an equality; an inequality whose slack range is positive gets one
\* integer slack variable.  All coefficients are 1 over binary variables, so
\* the left-hand side ranges over 0..num_binary.
SlackRange(q, c) ==
    IF c.sense = "LE" THEN c.rhs - 0
    ELSE IF c.sense = "GE" THEN q.num_binary - c.rhs
    ELSE 0

InequalityToEquality(q) ==
    [q EXCEPT
        !.num_integer = q.num_integer
            + Cardinality({c \in q.constraints : SlackRange(q, c) > 0}),
        !.constraints = {[c EXCEPT !.sense = "EQ"] : c \in q.constraints}]

\* LinearEqualityToPenalty().convert (called at line 114): every equality
\* constraint is removed and added to the objective as a penalty term.
LinearEqualityToPenalty(q) ==
    [q EXCEPT
        !.constraints = {c \in q.constraints : c.sense # "EQ"},
        !.penalized = q.penalized
            \cup {c.name : c \in {d \in q.constraints : d.sense = "EQ"}}]

\* qubo.to_ising() (line 120) rejects a program that still has a non-binary
\* variable or a constraint; otherwise the operator acts on one qubit per
\* variable.
ToIsingRaises(q) == q.num_integer > 0 \/ q.constraints # {}
ToIsing(q) == [num_qubits |-> q.num_binary]

\* Number of free parameters of one gate.
GateParams(g) == IF g \in {"rx", "ry", "rz"} THEN 1 ELSE 0

RECURSIVE SumGateParams(_)
SumGateParams(gates) ==
    IF gates = <<>> THEN 0
    ELSE GateParams(Head(gates)) + SumGateParams(Tail(gates))

\* Number of qubit pairs one entanglement layer acts on.
EntanglerPairs(n, entanglement) ==
    IF n <= 1 THEN 0
    ELSE IF entanglement = "full" THEN (n * (n - 1)) \div 2
    ELSE IF entanglement \in {"circular", "sca"} /\ n > 2 THEN n
    ELSE n - 1

\* TwoLocal(...) (lines 38-44): reps entanglement layers between reps + 1
\* rotation layers, every rotation gate on every qubit.
TwoLocal(num_qubits, o) ==
    [num_qubits |-> num_qubits,
     rotation_blocks |-> o.rotation_blocks,
     entanglement_blocks |-> o.entanglement_blocks,
     entanglement |-> o.entanglement,
     reps |-> o.reps,
     num_parameters |->
         (o.reps + 1) * num_qubits * SumGateParams(o.rotation_blocks)
         + o.reps * EntanglerPairs(num_qubits, o.entanglement)
                  * SumGateParams(o.entanglement_blocks)]

\* Lines 46-50.
NewCostDict == [prev_vector |-> None, iters |-> 0, assets_history |-> <<>>]

----------------------------------------------------------------------------
\* __cost_func, lines 157-159, with the update of prev_vector dropped once
\* a vector is recorded.
CostFuncUpdate_keepfirst(cd, params) ==
    [iters |-> cd.iters + 1,
     prev_vector |-> IF cd.prev_vector = None THEN Some(params) ELSE cd.prev_vector,
     assets_history |-> Append(cd.assets_history, params)]

\* __cost_func, lines 157-159, with the history kept to the latest vector.
CostFuncUpdate_nohistory(cd, params) ==
    [iters |-> cd.iters + 1,
     prev_vector |-> Some(params),
     assets_history |-> <<params>>]

\* __cost_func, lines 157-159: the bookkeeping of one evaluation.  The
\* energy (lines 153-155, 161) goes back to the minimizer and is not kept.
CostFuncUpdate(cd, params) ==
    [iters |-> cd.iters + 1,
     prev_vector |-> Some(params),
     assets_history |-> Append(cd.assets_history, params)]

\* Length of seq[:k] for a sequence of length n (Python slice semantics).
SliceLen(n, k) ==
    IF k >= 0 THEN (IF k < n THEN k ELSE n)
    ELSE (IF n + k > 0 THEN n + k ELSE 0)

\* np.argsort(results)[:k] as a set of (1-based) indices.  The default sort
\* is not stable, so among equal values any may come first: the possible
\* prefixes are the sets of the right size in which no member is larger
\* than a non-member.
ArgsortPrefixes(results, k) ==
    LET n == Len(results)
        c == SliceLen(n, k)
        below(j) == Cardinality({l \in 1..n : results[l] < results[j]})
        atmost(j) == Cardinality({l \in 1..n : results[l] <= results[j]})
        must == {j \in 1..n : atmost(j) <= c}
        ties == {j \in 1..n : below(j) < c /\ atmost(j) > c}
    IN {must \cup t : t \in {u \in SUBSET ties : Cardinality(u) = c - Cardinality(must)}}

\* __process_results with the slice taken one element short.
ProcessResults_short(results, n_assets) ==
    {[j \in 1..Len(results) |-> IF j \in chosen THEN 1 ELSE 0] :
        chosen \in ArgsortPrefixes(results, n_assets - 1)}

\* __process_results, lines 124-128: the possible return values.
ProcessResults(results, n_assets) ==
    {[j \in 1..Len(results) |-> IF j \in chosen THEN 1 ELSE 0] :
        chosen \in ArgsortPrefixes(results, n_assets)}

\* __count_results with the increment of line 135 replaced by a store of 1.
RECURSIVE CountResults_noinc(_)
CountResults_noinc(results) ==
    IF results = <<>> THEN <<>>
    ELSE LET n == Len(results)
             count_dict == CountResults_noinc(SubSeq(results, 1, n - 1))
             arr_tuple == results[n]
         IN (arr_tuple :> 1) @@ count_dict

\* __count_results, lines 131-138.  The empty dict is the empty function.
RECURSIVE CountResults(_)
CountResults(results) ==
    IF results = <<>> THEN <<>>
    ELSE LET n == Len(results)
             count_dict == CountResults(SubSeq(results, 1, n - 1))
             arr_tuple == results[n]
         IN IF arr_tuple \in DOMAIN count_dict
            THEN [count_dict EXCEPT ![arr_tuple] = @ + 1]
            ELSE (arr_tuple :> 1) @@ count_dict


----------------------------------------------------------------------------
\* Inputs of the solver specification.

\* linear_weights: n weights, n >= 1.
LinearWeightsInputs == {[j \in 1..n |-> j] : n \in 1..MaxAssets}

\* n_assets for n linear weights: None, 0, a cardinality bound within 1..n,
\* or n + 1 (nothing in the builder or the solver checks the bound against n).
NAssetsInputs(n) == {None, Some(0)} \cup {Some(k) : k \in 1..(n + 1)}

\* Ansatz options with parameterised rotation gates and a valid topology.
AnsatzInputs ==
    {AnsatzOptions(rot, <<"cz">>, "linear", reps) :
        rot \in {<<"ry">>, <<"ry", "rz">>}, reps \in 0..MaxReps}

SolverArgs ==
    {[linear_weights |-> w, n_assets |-> k, problem_name |-> "QUBO Problem",
      constraint_sense |-> sense, estimator |-> "StatevectorEstimator",
      ansatz_options |-> o] :
        w \in LinearWeightsInputs, k \in NAssetsInputs(MaxAssets),
        sense \in Senses, o \in AnsatzInputs}

\* Parameter vectors of length m the minimizer may try (the random start
\* x0 of line 57 is one of them): ascending, descending, and tied in pairs.
ParamVectors(m) ==
    {[j \in 1..m |-> j], [j \in 1..m |-> m + 1 - j], [j \in 1..m |-> (j + 1) \div 2]}

Methods == {"COBYLA", "Nelder-Mead"}

BuilderIdle ==
    /\ ctor = None /\ builder = None /\ last_call = None /\ stdout = None
    /\ raised = None /\ touched = FALSE /\ built = None /\ built_from = None

\* A caller enters QuboSolver.__init__ with some arguments.
InitSolver ==
    /\ BuilderIdle
    /\ pc = "new"
    /\ args \in {a \in SolverArgs :
                    a.n_assets \in NAssetsInputs(Len(a.linear_weights))}
    /\ solver = None /\ qubo = None /\ hamilt = None /\ ansatz = None
    /\ cost_dict = None /\ calls = <<>>
    /\ shots = 0 /\ r = <<>> /\ i = 0 /\ result = None
    /\ evalLog = <<>> /\ restartFrom = 0

runVars == <<shots, r, i, result, evalLog, restartFrom>>

\* __init__, lines 27-34.
InitFields ==
    /\ pc = "new"
    /\ solver' = Some(QuboSolverFields(args))
    /\ pc' = "create_qubo"
    /\ UNCHANGED <<builderVars, args, qubo, hamilt, ansatz, cost_dict, calls, runVars>>

\* __create_hamilt -> __create_qubo, lines 92-110.
CreateQuboStep ==
    /\ pc = "create_qubo"
    /\ qubo' = Some(CreateQubo(Val(solver)))
    /\ pc' = "convert"
    /\ UNCHANGED <<builderVars, args, solver, hamilt, ansatz, cost_dict, calls, runVars>>

\* __create_qubo, lines 112-113.
ConvertInequalityStep ==
    /\ pc = "convert"
    /\ IF ConvertsInequality(Val(solver).constraint_sense)
       THEN /\ qubo' = Some(InequalityToEquality(Val(qubo)))
            /\ calls' = Append(calls, "InequalityToEquality")
       ELSE UNCHANGED <<qubo, calls>>
    /\ pc' = "penalty"
    /\ UNCHANGED <<builderVars, args, solver, hamilt, ansatz, cost_dict, runVars>>

\* __create_qubo, lines 114-116.
PenaltyStep ==
    /\ pc = "penalty"
    /\ qubo' = Some(LinearEqualityToPenalty(Val(qubo)))
    /\ calls' = Append(calls, "LinearEqualityToPenalty")
    /\ pc' = "to_ising"
    /\ UNCHANGED <<builderVars, args, solver, hamilt, ansatz, cost_dict, runVars>>

\* __create_hamilt, lines 120-121, and the assignment of line 36.  An
\* exception of to_ising leaves __init__: no solver object results.
ToIsingStep ==
    /\ pc = "to_ising"
    /\ calls' = Append(calls, "to_ising")
    /\ IF ToIsingRaises(Val(qubo))
       THEN pc' = "raised" /\ UNCHANGED hamilt
       ELSE pc' = "ansatz" /\ hamilt' = Some(ToIsing(Val(qubo)))
    /\ UNCHANGED <<builderVars, args, solver, qubo, ansatz, cost_dict, runVars>>

\* __init__, lines 38-50.
AnsatzStep ==
    /\ pc = "ansatz"
    /\ ansatz' = Some(TwoLocal(Val(hamilt).num_qubits, args.ansatz_options))
    /\ calls' = Append(calls, "TwoLocal")
    /\ cost_dict' = Some(NewCostDict)
    /\ pc' = "ready"
    /\ UNCHANGED <<builderVars, args, solver, qubo, hamilt, runVars>>

\* run, line 55: a call run(n, method) on the constructed solver.
RunCall(n, method) ==
    /\ pc = "ready"
    /\ shots' = n
    /\ r' = <<>>
    /\ i' = 0
    /\ result' = None
    /\ pc' = "loop"
    /\ UNCHANGED <<builderVars, args, solver, qubo, hamilt, ansatz, cost_dict, calls,
                   evalLog, restartFrom>>

\* run, lines 56-58: the next restart enters minimize.
BeginRestart ==
    /\ pc = "loop"
    /\ i < shots
    /\ Val(cost_dict).iters < MaxEvals
    /\ restartFrom' = Len(evalLog)
    /\ pc' = "minimize"
    /\ UNCHANGED <<builderVars, args, solver, qubo, hamilt, ansatz, cost_dict, calls,
                   shots, r, i, result, evalLog>>

\* The minimizer evaluates __cost_func (lines 140-161) at a point.
Evaluate ==
    /\ pc = "minimize"
    /\ Val(cost_dict).iters < MaxEvals
    /\ \E params \in ParamVectors(Val(ansatz).num_parameters) :
           /\ cost_dict' = Some(CostFuncUpdate(Val(cost_dict), params))
           /\ evalLog' = Append(evalLog, params)
    /\ UNCHANGED <<builderVars, pc, args, solver, qubo, hamilt, ansatz, calls,
                   shots, r, i, result, restartFrom>>

\* minimize returns, having evaluated the objective at least once, and
\* line 64 appends the candidate.
EndRestart ==
    /\ pc = "minimize"
    /\ Len(evalLog) > restartFrom
    /\ \E candidate \in ProcessResults(Val(Val(cost_dict).prev_vector),
                                       Val(solver).n_assets) :
           r' = Append(r, candidate)
    /\ i' = i + 1
    /\ pc' = "loop"
    /\ UNCHANGED <<builderVars, args, solver, qubo, hamilt, ansatz, cost_dict, calls,
                   shots, result, evalLog, restartFrom>>

\* run, line 66.
RunReturn ==
    /\ pc = "loop"
    /\ i = shots
    /\ result' = Some(CountResults(r))
    /\ pc' = "ready"
    /\ UNCHANGED <<builderVars, args, solver, qubo, hamilt, ansatz, cost_dict, calls,
                   shots, r, i, evalLog, restartFrom>>

NextSolver ==
    \/ InitFields
    \/ CreateQuboStep
    \/ ConvertInequalityStep
    \/ PenaltyStep
    \/ ToIsingStep
    \/ AnsatzStep
    \/ \E n \in 0..MaxShots, method \in Methods : RunCall(n, method)
    \/ BeginRestart
    \/ Evaluate
    \/ EndRestart
    \/ RunReturn

SpecSolver == InitSolver /\ [][NextSolver]_vars


----------------------------------------------------------------------------
\* QuboSolver.__init__ as one call (lines 27-50): the solver object, or None
\* when to_ising raises and no object results.
QuboSolverInit(a) ==
    LET s == QuboSolverFields(a)
        q0 == CreateQubo(s)
        q1 == IF ConvertsInequality(s.constraint_sense)
              THEN InequalityToEquality(q0) ELSE q0
        q2 == LinearEqualityToPenalty(q1)
    IN IF ToIsingRaises(q2) THEN None
       ELSE Some([linear_weights |-> s.linear_weights,
                  n_assets |-> s.n_assets,
                  problem_name |-> s.problem_name,
                  constraint_sense |-> s.constraint_sense,
                  estimator |-> s.estimator,
                  hamilt |-> ToIsing(q2),
                  ansatz |-> TwoLocal(ToIsing(q2).num_qubits, a.ansatz_options),
                  cost_dict |-> NewCostDict])

----------------------------------------------------------------------------
\* QuboSolverBuilder.

\* __init__ with "cx" as the default entanglement gate.
BuilderInit_cx(linear_weights, n_assets) ==
    [linear_weights |-> linear_weights,
     n_assets |-> IF IntTruthy(n_assets) THEN Val(n_assets) ELSE Len(linear_weights),
     problem_name |-> "QUBO Problem",
     constraint_sense |-> "EQ",
     estimator |-> "StatevectorEstimator",
     ansatz |-> AnsatzOptions(<<"ry">>, <<"cx">>, "linear", 0)]

\* __init__, lines 43-51.
BuilderInit(linear_weights, n_assets) ==
    [linear_weights |-> linear_weights,
     n_assets |-> IF IntTruthy(n_assets) THEN Val(n_assets) ELSE Len(linear_weights),
     problem_name |-> "QUBO Problem",
     constraint_sense |-> "EQ",
     estimator |-> "StatevectorEstimator",
     ansatz |-> AnsatzOptions(<<"ry">>, <<"cz">>, "linear", 0)]

\* build with the problem name left at the solver's usual label.
BuildArgs_fixedname(b) ==
    [linear_weights |-> b.linear_weights,
     n_assets |-> Some(b.n_assets),
     problem_name |-> "QUBO Problem",
     constraint_sense |-> b.constraint_sense,
     estimator |-> b.estimator,
     ansatz_options |-> b.ansatz]

\* build, lines 55-63: the arguments handed to QuboSolver.
BuildArgs(b) ==
    [linear_weights |-> b.linear_weights,
     n_assets |-> Some(b.n_assets),
     problem_name |-> b.problem_name,
     constraint_sense |-> b.constraint_sense,
     estimator |-> b.estimator,
     ansatz_options |-> b.ansatz]

InvalidSense == "Error! Invalid sense"
InvalidEntanglement == "Error! Invalid entanglement strategy"

\* set_problem without the early return of line 77.
SetProblem_noreturn(b, problem_name, constraint_sense) ==
    LET b1 == IF StrTruthy(problem_name)
              THEN [b EXCEPT !.problem_name = Val(problem_name)] ELSE b
    IN IF StrTruthy(constraint_sense)
       THEN [fields |-> [b1 EXCEPT !.constraint_sense = Val(constraint_sense)],
             out |-> IF Val(constraint_sense) \notin Senses
                     THEN Some(InvalidSense) ELSE None]
       ELSE [fields |-> b1, out |-> None]

\* set_problem, lines 71-79: the builder's fields afterwards and what was
\* printed.
SetProblem(b, problem_name, constraint_sense) ==
    LET b1 == IF StrTruthy(problem_name)
              THEN [b EXCEPT !.problem_name = Val(problem_name)] ELSE b
    IN IF StrTruthy(constraint_sense)
       THEN IF Val(constraint_sense) \notin Senses
            THEN [fields |-> b1, out |-> Some(InvalidSense)]
            ELSE [fields |-> [b1 EXCEPT !.constraint_sense = Val(constraint_sense)],
                  out |-> None]
       ELSE [fields |-> b1, out |-> None]

\* set_estimator, lines 83-84.  An estimator object is truthy.
SetEstimator(b, estimator) ==
    IF estimator # None THEN [b EXCEPT !.estimator = Val(estimator)] ELSE b

\* set_ansatz with a None argument keeping the option held before.
SetAnsatz_keep(b, rotation_blocks, entanglement_blocks, entanglement, reps) ==
    LET rot == IF rotation_blocks = None THEN b.ansatz.rotation_blocks
               ELSE Val(rotation_blocks)
        blocks == IF entanglement_blocks = None THEN b.ansatz.entanglement_blocks
                  ELSE Val(entanglement_blocks)
        ent == IF entanglement = None THEN b.ansatz.entanglement ELSE Val(entanglement)
        n == IF reps = None THEN b.ansatz.reps ELSE Val(reps)
    IN [fields |-> [b EXCEPT !.ansatz = AnsatzOptions(rot, blocks, ent, n)],
        out |-> IF ent \notin Entanglements THEN Some(InvalidEntanglement) ELSE None]

\* set_ansatz, lines 94-121: the builder's fields afterwards and what was
\* printed.
SetAnsatz(b, rotation_blocks, entanglement_blocks, entanglement, reps) ==
    LET rot == IF rotation_blocks = None THEN <<"ry">> ELSE Val(rotation_blocks)
        blocks == IF entanglement_blocks = None THEN <<"cz">>
                  ELSE Val(entanglement_blocks)
        ent == IF entanglement = None THEN "linear" ELSE Val(entanglement)
        n == IF reps = None THEN 0 ELSE Val(reps)
    IN [fields |-> [b EXCEPT !.ansatz = AnsatzOptions(rot, blocks, ent, n)],
        out |-> IF ent \notin Entanglements THEN Some(InvalidEntanglement) ELSE None]

\* Inputs of the builder specification.
ProblemNameInputs == {None, Some(""), Some("Portfolio")}
SenseInputs == {None, Some(""), Some("LE"), Some("GE"), Some("XX")}
EstimatorInputs == {None, Some("Estimator")}

\* Argument tuples of set_ansatz: all None, each argument alone (the
\* topology both valid and invalid), and all four given.
AnsatzCallInputs ==
    {<<None, None, None, None>>,
     <<Some(<<"ry", "rz">>), None, None, None>>,
     <<None, Some(<<"cx">>), None, None>>,
     <<None, None, Some("full"), None>>,
     <<None, None, Some("bogus"), None>>}
    \cup {<<None, None, None, Some(k)>> : k \in 1..MaxReps}
    \cup {<<Some(<<"ry", "rz">>), Some(<<"cx">>), Some("bogus"), Some(k)>> : k \in 1..MaxReps}

SolverIdle ==
    /\ pc = "none" /\ args = None /\ solver = None /\ qubo = None
    /\ hamilt = None /\ ansatz = None /\ cost_dict = None /\ calls = <<>>
    /\ shots = 0 /\ r = <<>> /\ i = 0 /\ result = None
    /\ evalLog = <<>> /\ restartFrom = 0

\* A builder has just been constructed, for MaxAssets linear weights.
InitBuilder ==
    /\ SolverIdle
    /\ \E w \in {u \in LinearWeightsInputs : Len(u) = MaxAssets},
          k \in NAssetsInputs(MaxAssets) :
           /\ ctor = Some([linear_weights |-> w, n_assets |-> k])
           /\ builder = Some(BuilderInit(w, k))
    /\ last_call = None /\ stdout = None /\ raised = None /\ touched = FALSE
    /\ built = None /\ built_from = None

\* set_problem(problem_name, constraint_sense).
SetProblemCall(problem_name, constraint_sense) ==
    LET res == SetProblem(Val(builder), problem_name, constraint_sense) IN
    /\ builder # None
    /\ builder' = Some(res.fields)
    /\ stdout' = res.out
    /\ raised' = None
    /\ touched' = TRUE
    /\ last_call' = Some([op |-> "set_problem", a |-> <<problem_name, constraint_sense>>])
    /\ UNCHANGED <<ctor, built, built_from, solverVars>>

\* set_estimator(estimator).
SetEstimatorCall(estimator) ==
    /\ builder # None
    /\ builder' = Some(SetEstimator(Val(builder), estimator))
    /\ stdout' = None
    /\ raised' = None
    /\ touched' = TRUE
    /\ last_call' = Some([op |-> "set_estimator", a |-> <<estimator>>])
    /\ UNCHANGED <<ctor, built, built_from, solverVars>>

\* set_ansatz(rotation_blocks, entanglement_blocks, entanglement, reps).
SetAnsatzCall(rotation_blocks, entanglement_blocks, entanglement, reps) ==
    LET res == SetAnsatz(Val(builder), rotation_blocks, entanglement_blocks,
                         entanglement, reps) IN
    /\ builder # None
    /\ builder' = Some(res.fields)
    /\ stdout' = res.out
    /\ raised' = None
    /\ touched' = TRUE
    /\ last_call' = Some([op |-> "set_ansatz",
                          a |-> <<rotation_blocks, entanglement_blocks,
                                  entanglement, reps>>])
    /\ UNCHANGED <<ctor, built, built_from, solverVars>>

\* build(): the solver constructed from the current fields, or the
\* exception of its constructor.
BuildCall ==
    LET obj == QuboSolverInit(BuildArgs(Val(builder))) IN
    /\ builder # None
    /\ IF obj = None
       THEN /\ raised' = Some("QiskitOptimizationError")
            /\ UNCHANGED <<built, built_from>>
       ELSE /\ raised' = None
            /\ built' = obj
            /\ built_from' = builder
    /\ stdout' = None
    /\ last_call' = Some([op |-> "build", a |-> <<>>])
    /\ UNCHANGED <<ctor, builder, touched, solverVars>>

NextBuilder ==
    \/ \E name \in ProblemNameInputs, sense \in SenseInputs : SetProblemCall(name, sense)
    \/ \E e \in EstimatorInputs : SetEstimatorCall(e)
    \/ \E a \in AnsatzCallInputs : SetAnsatzCall(a[1], a[2], a[3], a[4])
    \/ BuildCall

SpecBuilder == InitBuilder /\ [][NextBuilder]_vars

----------------------------------------------------------------------------
\* Properties of the solver.

RECURSIVE SumValues(_)
SumValues(d) ==
    IF DOMAIN d = {} THEN 0
    ELSE LET k == CHOOSE x \in DOMAIN d : TRUE
         IN d[k] + SumValues([x \in (DOMAIN d) \ {k} |-> d[x]])

Ones(key) == Cardinality({j \in 1..Len(key) : key[j] = 1})

\* C1: the counts of the mapping a run call returns sum to that call's
\* shots; the mapping is the histogram of this call's candidates, one per
\* restart, whatever earlier run calls did.
C1_CountsSumToShots ==
    result # None =>
        /\ SumValues(Val(result)) = shots
        /\ Len(r) = shots
        /\ DOMAIN Val(result) = {r[k] : k \in 1..Len(r)}
        /\ \A key \in DOMAIN Val(result) :
               Val(result)[key] = Cardinality({k \in 1..Len(r) : r[k] = key})

\* A one-shot run call has returned, and its only restart began when the
\* history already held evaluations of an earlier run call.
C1_Witness ==
    /\ result # None
    /\ shots = 1
    /\ restartFrom >= 1
    /\ SumValues(Val(result)) = 1

Min(a, b) == IF a <= b THEN a ELSE b

ResolvedNAssets ==
    IF args.n_assets = None \/ args.n_assets = Some(0)
    THEN Len(args.linear_weights) ELSE Val(args.n_assets)

C3_KeysHaveAssetLength ==
    result # None =>
        \A key \in DOMAIN Val(result) :
            /\ \A j \in 1..Len(key) : key[j] \in {0, 1}
            /\ Len(key) = Len(Val(solver).linear_weights)

\* C8: whenever run records a candidate, the minimizer has evaluated the
\* objective during this restart and the candidate is a selection computed
\* from the vector of its last evaluation.
C8_CandidateFromLastEvaluation ==
    [][Len(r') = Len(r) + 1 =>
          /\ Len(evalLog) > restartFrom
          /\ r'[Len(r')] \in ProcessResults(evalLog[Len(evalLog)], Val(solver).n_assets)]_vars

\* Two restarts of one run call have recorded different candidates, one of
\* them after more than one evaluation.
C8_Witness ==
    /\ Len(r) = 2
    /\ r[1] # r[2]
    /\ Len(evalLog) >= 3

C9_State ==
    cost_dict # None =>
        LET cd == Val(cost_dict) IN
        /\ cd.iters = Len(evalLog)
        /\ cd.assets_history = evalLog
        /\ (cd.prev_vector = None) <=> (cd.iters = 0)
        /\ cd.iters > 0 => Val(cd.prev_vector) = cd.assets_history[cd.iters]

C9_Step ==
    cost_dict # None =>
        LET cd == Val(cost_dict)
            cd2 == Val(cost_dict')
        IN /\ cost_dict' # None
           /\ cd2.iters >= cd.iters
           /\ SubSeq(cd2.assets_history, 1, Len(cd.assets_history)) = cd.assets_history
           /\ evalLog' # evalLog =>
                  /\ cd2.iters = cd.iters + 1
                  /\ cd2.assets_history =
                         Append(cd.assets_history, evalLog'[Len(evalLog')])

\* C9: the cost-tracking state is never reset.  The counter equals the
\* number of evaluations since construction, the history is exactly those
\* vectors in order, the previous vector is unset exactly when the counter
\* is 0 and is otherwise the last history entry; every evaluation adds 1 to
\* the counter and one vector to the history, and no step shrinks either.
C9_CostStateAccumulates == []C9_State /\ [][C9_Step]_vars

\* The first restart of a run call is inside minimize with a history that
\* already holds two evaluations, made by an earlier run call.
C9_Witness ==
    /\ pc = "minimize"
    /\ i = 0
    /\ restartFrom >= 2
    /\ Val(cost_dict).iters > restartFrom

\* C10: during construction the inequality-to-equality conversion is the
\* first collaborator call for every sense, EQ included; the penalty
\* conversion follows it, the Ising transformation follows that, and the
\* ansatz exists only once the Hamiltonian does, with its qubit count.
C10_ConstructionOrder ==
    /\ pc \notin {"new", "create_qubo", "convert"} =>
           /\ Len(calls) >= 1 /\ calls[1] = "InequalityToEquality"
           /\ \A c \in Val(qubo).constraints : c.sense = "EQ"
    /\ pc \notin {"new", "create_qubo", "convert", "penalty"} =>
           Len(calls) >= 2 /\ calls[2] = "LinearEqualityToPenalty"
    /\ pc \notin {"new", "create_qubo", "convert", "penalty", "to_ising"} =>
           Len(calls) >= 3 /\ calls[3] = "to_ising"
    /\ ansatz # None =>
           /\ hamilt # None
           /\ Val(ansatz).num_qubits = Val(hamilt).num_qubits
           /\ calls = <<"InequalityToEquality", "LinearEqualityToPenalty",
                        "to_ising", "TwoLocal">>
    /\ Len(calls) <= 3 => ansatz = None

\* A solver with sense EQ has finished construction.
C10_Witness ==
    /\ pc = "ready"
    /\ Val(solver).constraint_sense = "EQ"
    /\ calls[1] = "InequalityToEquality"


----------------------------------------------------------------------------
\* Properties of the builder.

LastOp == IF last_call = None THEN "none" ELSE Val(last_call).op

C4_Step ==
    (last_call' # None /\ Val(last_call').op = "set_problem") =>
        LET name == Val(last_call').a[1]
            sense == Val(last_call').a[2]
            b == Val(builder)
            b2 == Val(builder')
        IN /\ raised' = None
           /\ (sense = None \/ Val(sense) \notin Senses) =>
                  b2.constraint_sense = b.constraint_sense
           /\ (name = None \/ Val(name) = "") => b2.problem_name = b.problem_name
           /\ (name = None /\ sense = Some("XX")) => b2 = b

\* C4: the builder's sense is always one of LE, EQ, GE; a set_problem call
\* with a sense outside that set keeps the sense and raises nothing, one
\* with a None or empty name keeps the name, and set_problem(None, "XX")
\* changes no field.
C4_SenseStaysValid ==
    /\ [](builder # None => Val(builder).constraint_sense \in Senses)
    /\ [][C4_Step]_vars

\* set_problem(None, "XX") has just been called on a builder whose sense
\* had been set to GE, and reported the invalid sense.
C4_Witness ==
    /\ last_call = Some([op |-> "set_problem", a |-> <<None, Some("XX")>>])
    /\ stdout = Some(InvalidSense)
    /\ Val(builder).constraint_sense = "GE"

\* C5: after set_ansatz the options are a function of the four arguments
\* alone: None gives the default, anything else is stored as given, and a
\* topology outside the allowed six is printed as an error and still stored.
C5_AnsatzFromArguments ==
    LastOp = "set_ansatz" =>
        LET a == Val(last_call).a
            o == Val(builder).ansatz
        IN /\ o.rotation_blocks = (IF a[1] = None THEN <<"ry">> ELSE Val(a[1]))
           /\ o.entanglement_blocks = (IF a[2] = None THEN <<"cz">> ELSE Val(a[2]))
           /\ o.entanglement = (IF a[3] = None THEN "linear" ELSE Val(a[3]))
           /\ o.reps = (IF a[4] = None THEN 0 ELSE Val(a[4]))
           /\ (stdout # None) <=> (o.entanglement \notin Entanglements)
           /\ raised = None
           /\ a = <<None, None, None, None>> =>
                  o = AnsatzOptions(<<"ry">>, <<"cz">>, "linear", 0)

\* set_ansatz was called with only an invalid topology given: it is stored
\* and reported, and the other options are the defaults.
C5_Witness ==
    /\ last_call = Some([op |-> "set_ansatz", a |-> <<None, None, Some("bogus"), None>>])
    /\ Val(builder).ansatz = AnsatzOptions(<<"ry">>, <<"cz">>, "bogus", 0)
    /\ stdout = Some(InvalidEntanglement)

\* C6: a solver built before any setter call has the default name, sense,
\* estimator and ansatz options, and the constructor's cardinality bound,
\* or the number of linear weights when that was None or 0.
C6_DefaultBuild ==
    (~touched /\ built # None) =>
        LET s == Val(built)
            c == Val(ctor)
        IN /\ s.problem_name = "QUBO Problem"
           /\ s.constraint_sense = "EQ"
           /\ s.estimator = "StatevectorEstimator"
           /\ s.ansatz.rotation_blocks = <<"ry">>
           /\ s.ansatz.entanglement_blocks = <<"cz">>
           /\ s.ansatz.entanglement = "linear"
           /\ s.ansatz.reps = 0
           /\ s.linear_weights = c.linear_weights
           /\ s.n_assets = (IF c.n_assets = None \/ c.n_assets = Some(0)
                            THEN Len(c.linear_weights) ELSE Val(c.n_assets))

\* A builder constructed with n_assets 0 has built a solver with no setter
\* called.
C6_Witness ==
    /\ ~touched
    /\ built # None
    /\ Val(ctor).n_assets = Some(0)
    /\ Val(built).n_assets = Len(Val(ctor).linear_weights)

C7_State ==
    built # None =>
        LET s == Val(built)
            b == Val(built_from)
        IN /\ s.linear_weights = b.linear_weights
           /\ s.n_assets = b.n_assets
           /\ s.problem_name = b.problem_name
           /\ s.constraint_sense = b.constraint_sense
           /\ s.estimator = b.estimator
           /\ s.ansatz.rotation_blocks = b.ansatz.rotation_blocks
           /\ s.ansatz.entanglement_blocks = b.ansatz.entanglement_blocks
           /\ s.ansatz.entanglement = b.ansatz.entanglement
           /\ s.ansatz.reps = b.ansatz.reps

C7_Step ==
    /\ (last_call' # None /\ Val(last_call').op = "build") =>
           /\ builder' = builder
           /\ (raised' = None => built_from' = builder)
    /\ (last_call' # None /\ Val(last_call').op # "build") =>
           (built' = built /\ built_from' = built_from)

\* C7: build() changes no field of the builder and returns a solver with
\* the configuration the builder has at that moment; setter calls leave the
\* solver already built as it was.
C7_BuildSnapshotsConfiguration == []C7_State /\ [][C7_Step]_vars

\* After a build, a setter changed the builder's name and sense; the solver
\* built earlier keeps the old ones.
C7_Witness ==
    /\ built # None
    /\ LastOp = "set_problem"
    /\ Val(built).problem_name = "Portfolio"
    /\ Val(builder).constraint_sense = "LE"
    /\ Val(built).constraint_sense = "GE"
    /\ Val(built_from) # Val(builder)

====
